---- MODULE Spec2Model ----
(***************************************************************************)
(* A model of resast's declaration nodes (src/src/decl.rs): the ten node   *)
(* types, their construction by an external parser that composes nodes     *)
(* bottom-up, and the derived Clone, PartialEq, Serialize and Deserialize  *)
(* implementations.                                                        *)
(*                                                                         *)
(* Every value of one of the ten types is a node of `heap`, named by its   *)
(* index.  A node refers to its children by index.  `roots` is the         *)
(* parser's stack: the nodes it still owns directly, oldest first.         *)
(* Building a parent moves its children off the stack (Rust move           *)
(* semantics) and pushes the parent.  A parent is built from the topmost   *)
(* nodes of the stack, as a shift-reduce or recursive-descent parser does; *)
(* every forest of nodes can be built that way, subtree after subtree, so  *)
(* the discipline fixes only the order in which indices are handed out.    *)
(*                                                                         *)
(* `wire` holds the last value written in the interchange format, and      *)
(* `out` the last operation: what it was, the node it read (src), the node *)
(* it made (dst) and the operands it was given (args).                     *)
(***************************************************************************)
EXTENDS Naturals, Sequences, FiniteSets, TLC

VARIABLES heap, roots, wire, out

vars == <<heap, roots, wire, out>>

(* ------------------------------ bounds -------------------------------- *)

\* most nodes the parser builds in a run that uses every node type
MaxNodes == 2
\* most nodes it builds in a run over one family of node types
MaxFamily == 4
\* most nodes it builds in a run over import and export braces
MaxBraces == 5
\* most nodes it builds in a run over default and namespace imports
MaxImport == 6
\* longest Vec handed to a constructor
MaxVec == 3

(* ------------------- opaque leaves from sibling modules --------------- *)

Ident == {"a", "b"}
Lit == {"mod"}
Pat == {"p"}
Expr == {"e"}
Func == {"f"}
Class == {"k"}
VarKind == {"Var", "Let", "Const"}

\* Option<T>: None is the empty sequence, Some(x) the one-element sequence
None == <<>>
Some(x) == <<x>>
Option(S) == {None} \cup {Some(x) : x \in S}

(* ------------------------------ nodes --------------------------------- *)

Ids == 1..Len(heap)

\* the children of a node, in field order
Kids(n) ==
    CASE n.ty = "Decl" /\ n.tag = "Var" -> n.decls
      [] n.ty = "Decl" /\ n.tag \in {"Import", "Export"} -> <<n.boxed>>
      [] n.ty = "ModDecl" -> <<n.inner>>
      [] n.ty = "ModImport" -> n.specifiers
      [] n.ty = "ImportSpecifier" /\ n.tag = "Normal" -> <<n.spec>>
      [] n.ty = "ModExport" /\ n.tag \in {"Default", "Named"} -> <<n.payload>>
      [] n.ty = "NamedExportDecl" /\ n.tag = "Decl" -> <<n.decl>>
      [] n.ty = "NamedExportDecl" /\ n.tag = "Specifier" -> n.specs
      [] n.ty = "DefaultExportDecl" /\ n.tag = "Decl" -> <<n.decl>>
      [] OTHER -> <<>>

\* the fields of a node that are not nodes themselves
Atoms(n) ==
    CASE n.ty = "Decl" /\ n.tag = "Var" -> <<n.kind>>
      [] n.ty = "Decl" /\ n.tag = "Func" -> <<n.func>>
      [] n.ty = "Decl" /\ n.tag = "Class" -> <<n.class>>
      [] n.ty = "VarDecl" -> <<n.id, n.init>>
      [] n.ty = "ModImport" -> <<n.source>>
      [] n.ty = "ImportSpecifier" /\ n.tag \in {"Default", "Namespace"} -> <<n.ident>>
      [] n.ty = "NormalImportSpec" -> <<n.local, n.imported>>
      [] n.ty = "ModExport" /\ n.tag = "All" -> <<n.source>>
      [] n.ty = "NamedExportDecl" /\ n.tag = "Specifier" -> <<n.source>>
      [] n.ty = "DefaultExportDecl" /\ n.tag = "Expr" -> <<n.expr>>
      [] n.ty = "ExportSpecifier" -> <<n.local, n.exported>>
      [] OTHER -> <<>>

\* the same node with its children replaced, in field order
WithKids(n, ks) ==
    CASE n.ty = "Decl" /\ n.tag = "Var" -> [n EXCEPT !.decls = ks]
      [] n.ty = "Decl" /\ n.tag \in {"Import", "Export"} -> [n EXCEPT !.boxed = ks[1]]
      [] n.ty = "ModDecl" -> [n EXCEPT !.inner = ks[1]]
      [] n.ty = "ModImport" -> [n EXCEPT !.specifiers = ks]
      [] n.ty = "ImportSpecifier" /\ n.tag = "Normal" -> [n EXCEPT !.spec = ks[1]]
      [] n.ty = "ModExport" /\ n.tag \in {"Default", "Named"} -> [n EXCEPT !.payload = ks[1]]
      [] n.ty = "NamedExportDecl" /\ n.tag = "Decl" -> [n EXCEPT !.decl = ks[1]]
      [] n.ty = "NamedExportDecl" /\ n.tag = "Specifier" -> [n EXCEPT !.specs = ks]
      [] n.ty = "DefaultExportDecl" /\ n.tag = "Decl" -> [n EXCEPT !.decl = ks[1]]
      [] OTHER -> n

Range(s) == {s[i] : i \in 1..Len(s)}

\* the value a node stands for: its variant, its fields, its children's values
RECURSIVE Tree(_, _)
Tree(h, id) ==
    [ty |-> h[id].ty, tag |-> h[id].tag, atoms |-> Atoms(h[id]),
     kids |-> [i \in 1..Len(Kids(h[id])) |-> Tree(h, Kids(h[id])[i])]]

SameTree(h, a, b) == h[a].ty = h[b].ty /\ Tree(h, a) = Tree(h, b)

\* the node on top of the stack, when it is of the type asked for
RootsOf(ty) ==
    IF roots # <<>> /\ heap[roots[Len(roots)]].ty = ty
    THEN {roots[Len(roots)]} ELSE {}

\* the Vecs a constructor can be handed: the topmost nodes of the stack, in
\* the order they were pushed, all of one type
Vecs(ty) ==
    {SubSeq(roots, Len(roots) - k + 1, Len(roots)) :
        k \in {k \in 0..MaxVec : /\ k <= Len(roots)
                                 /\ \A i \in 1..k :
                                       heap[roots[Len(roots) - i + 1]].ty = ty}}

\* the stack without the nodes S
Without(st, S) == SelectSeq(st, LAMBDA r : r \notin S)

(* --------------------------- construction ----------------------------- *)
(* decl.rs defines no constructor functions: every field is `pub` and a    *)
(* node is built by a struct literal or an enum variant, which checks      *)
(* nothing beyond the types of its operands.                               *)

\* a new node takes the next index and owns the children moved into it;
\* args are the operands the caller supplied
Alloc(n, args) ==
    /\ heap' = Append(heap, n)
    /\ roots' = Append(Without(roots, Range(Kids(n))), Len(heap) + 1)
    /\ out' = [op |-> "new", src |-> 0, dst |-> Len(heap) + 1, args |-> args]
    /\ UNCHANGED wire

\* a Decl::Var that refuses an empty binding list
Decl_Var_NonEmpty(kind, decls) ==
    /\ decls # <<>>
    /\ Alloc([ty |-> "Decl", tag |-> "Var", kind |-> kind, decls |-> decls],
             <<kind, decls>>)

\* a ModImport that refuses a second Default or a second Namespace
ModImport_Checked(specifiers, source) ==
    /\ \A i, j \in 1..Len(specifiers) :
          (i # j /\ heap[specifiers[i]].tag = heap[specifiers[j]].tag)
              => heap[specifiers[i]].tag = "Normal"
    /\ Alloc([ty |-> "ModImport", tag |-> "ModImport",
              specifiers |-> specifiers, source |-> source],
             <<specifiers, source>>)

\* a ModImport built by popping the specifiers off a stack
ModImport_Reversed(specifiers, source) ==
    Alloc([ty |-> "ModImport", tag |-> "ModImport",
           specifiers |-> [i \in 1..Len(specifiers) |->
                              specifiers[Len(specifiers) + 1 - i]],
           source |-> source],
          <<specifiers, source>>)

\* a NormalImportSpec with its two names exchanged
NormalImportSpec_Swapped(local, imported) ==
    Alloc([ty |-> "NormalImportSpec", tag |-> "NormalImportSpec",
           local |-> imported, imported |-> local],
          <<local, imported>>)

\* an aggregate export built with its source left out
ModExport_All_NoSource(source) ==
    Alloc([ty |-> "ModExport", tag |-> "All"],
          <<source>>)

\* a specifier export that drops the re-export source
NamedExportDecl_Specifier_NoSource(specs, source) ==
    Alloc([ty |-> "NamedExportDecl", tag |-> "Specifier",
           specs |-> specs, source |-> None],
          <<specs, source>>)

VarDecl(id, init) ==
    Alloc([ty |-> "VarDecl", tag |-> "VarDecl", id |-> id, init |-> init],
          <<id, init>>)

Decl_Var(kind, decls) ==
    Alloc([ty |-> "Decl", tag |-> "Var", kind |-> kind, decls |-> decls],
          <<kind, decls>>)

Decl_Func(func) ==
    Alloc([ty |-> "Decl", tag |-> "Func", func |-> func],
          <<func>>)

Decl_Class(class) ==
    Alloc([ty |-> "Decl", tag |-> "Class", class |-> class],
          <<class>>)

Decl_Import(boxed) ==
    Alloc([ty |-> "Decl", tag |-> "Import", boxed |-> boxed],
          <<boxed>>)

Decl_Export(boxed) ==
    Alloc([ty |-> "Decl", tag |-> "Export", boxed |-> boxed],
          <<boxed>>)

ModDecl_Import(inner) ==
    Alloc([ty |-> "ModDecl", tag |-> "Import", inner |-> inner],
          <<inner>>)

ModDecl_Export(inner) ==
    Alloc([ty |-> "ModDecl", tag |-> "Export", inner |-> inner],
          <<inner>>)

ModImport(specifiers, source) ==
    Alloc([ty |-> "ModImport", tag |-> "ModImport",
           specifiers |-> specifiers, source |-> source],
          <<specifiers, source>>)

ImportSpecifier_Normal(spec) ==
    Alloc([ty |-> "ImportSpecifier", tag |-> "Normal", spec |-> spec],
          <<spec>>)

ImportSpecifier_Default(ident) ==
    Alloc([ty |-> "ImportSpecifier", tag |-> "Default", ident |-> ident],
          <<ident>>)

ImportSpecifier_Namespace(ident) ==
    Alloc([ty |-> "ImportSpecifier", tag |-> "Namespace", ident |-> ident],
          <<ident>>)

NormalImportSpec(local, imported) ==
    Alloc([ty |-> "NormalImportSpec", tag |-> "NormalImportSpec",
           local |-> local, imported |-> imported],
          <<local, imported>>)

ModExport_Default(payload) ==
    Alloc([ty |-> "ModExport", tag |-> "Default", payload |-> payload],
          <<payload>>)

ModExport_Named(payload) ==
    Alloc([ty |-> "ModExport", tag |-> "Named", payload |-> payload],
          <<payload>>)

ModExport_All(source) ==
    Alloc([ty |-> "ModExport", tag |-> "All", source |-> source],
          <<source>>)

NamedExportDecl_Decl(decl) ==
    Alloc([ty |-> "NamedExportDecl", tag |-> "Decl", decl |-> decl],
          <<decl>>)

NamedExportDecl_Specifier(specs, source) ==
    Alloc([ty |-> "NamedExportDecl", tag |-> "Specifier",
           specs |-> specs, source |-> source],
          <<specs, source>>)

DefaultExportDecl_Decl(decl) ==
    Alloc([ty |-> "DefaultExportDecl", tag |-> "Decl", decl |-> decl],
          <<decl>>)

DefaultExportDecl_Expr(expr) ==
    Alloc([ty |-> "DefaultExportDecl", tag |-> "Expr", expr |-> expr],
          <<expr>>)

ExportSpecifier(local, exported) ==
    Alloc([ty |-> "ExportSpecifier", tag |-> "ExportSpecifier",
           local |-> local, exported |-> exported],
          <<local, exported>>)

(* ------------------------ derive(PartialEq) --------------------------- *)

RECURSIVE Eq(_, _, _)
\* same variant, and every field equal in turn
Eq(h, a, b) ==
    LET x == h[a]
        y == h[b]
    IN  /\ x.ty = y.ty
        /\ x.tag = y.tag
        /\ Atoms(x) = Atoms(y)
        /\ Len(Kids(x)) = Len(Kids(y))
        /\ \A i \in 1..Len(Kids(x)) : Eq(h, Kids(x)[i], Kids(y)[i])

(* -------------------------- derive(Clone) ----------------------------- *)

Front(s) == SubSeq(s, 1, Len(s) - 1)
Last(s) == s[Len(s)]

\* a clone that leaves the initializer of a binding behind
CloneFields_ForgetsInit(n, ks) ==
    IF n.ty = "VarDecl" THEN [n EXCEPT !.init = None] ELSE WithKids(n, ks)

\* a clone that copies the pointers to the children, not the children
CloneFields_Shallow(n, ks) == n

\* the copy of one node, given the copies of its children: the same
\* variant, the leaf fields cloned, the children replaced by their copies
CloneFields(n, ks) == WithKids(n, ks)

RECURSIVE Clone(_, _)
RECURSIVE CloneVec(_, _)

\* the heap with copies of the nodes ks added, and where each copy is
CloneVec(h, ks) ==
    IF ks = <<>> THEN [heap |-> h, ids |-> <<>>]
    ELSE LET r == CloneVec(h, Front(ks))
             h2 == Clone(r.heap, Last(ks))
         IN  [heap |-> h2, ids |-> Append(r.ids, Len(h2))]

\* the heap with a copy of node id added last: every field is cloned in
\* turn, so the copy owns copies of the children
Clone(h, id) ==
    LET r == CloneVec(h, Kids(h[id]))
    IN  Append(r.heap, CloneFields(h[id], r.ids))

\* a clone that takes the Option and Vec fields out of its source (as
\* Option::take and mem::take do) instead of copying them
CloneNode_Taking(id) ==
    /\ heap' = Append([heap EXCEPT ![id] =
                          CASE @.ty = "VarDecl" -> [@ EXCEPT !.init = None]
                            [] @.ty = "Decl" /\ @.tag = "Var" -> [@ EXCEPT !.decls = <<>>]
                            [] @.ty = "ModImport" -> [@ EXCEPT !.specifiers = <<>>]
                            [] @.ty = "NamedExportDecl" /\ @.tag = "Specifier" ->
                                 [@ EXCEPT !.specs = <<>>, !.source = None]
                            [] OTHER -> @],
                      heap[id])
    /\ roots' = Append(roots, Len(heap'))
    /\ out' = [op |-> "clone", src |-> id, dst |-> Len(heap'),
               args |-> <<Tree(heap, id)>>]
    /\ UNCHANGED wire

\* x.clone() takes &x: any node the parser can reach may be cloned
CloneNode(id) ==
    /\ heap' = Clone(heap, id)
    /\ roots' = Append(roots, Len(heap'))
    /\ out' = [op |-> "clone", src |-> id, dst |-> Len(heap'),
               args |-> <<Tree(heap, id)>>]
    /\ UNCHANGED wire

(* ---------------- derive(Serialize), derive(Deserialize) -------------- *)
(* The interchange value is JSON as serde's derived implementations lay it *)
(* out: a struct is an object of its fields, an enum variant is an object  *)
(* with the variant's name as its one key, a tuple variant's payload is an *)
(* array, a Vec is an array, None is null, Some(x) is x, a Box is what it  *)
(* holds.  Leaves are written by their own modules: here, as strings.      *)

JNull == [j |-> "null", v |-> <<>>]
JStr(x) == [j |-> "str", v |-> x]
JArr(items) == [j |-> "arr", v |-> items]
JObj(fields) == [j |-> "obj", v |-> fields]

\* the build features under which a type derives a trait (the cfg_attr
\* lines above each type)
Features == {"serde", "serialization", "esprima"}
Derives(f, ty, trait) ==
    IF ty \in {"ModDecl", "ModImport", "NormalImportSpec", "NamedExportDecl"}
    THEN "serialization" \in f
    ELSE /\ "serde" \in f
         /\ (trait = "Serialize" => "esprima" \notin f)

\* the types a value of a type can hold
Holds(ty) ==
    CASE ty = "VarDecl" -> {"VarDecl"}
      [] ty = "NormalImportSpec" -> {"NormalImportSpec"}
      [] ty = "ExportSpecifier" -> {"ExportSpecifier"}
      [] ty = "ImportSpecifier" -> {"ImportSpecifier", "NormalImportSpec"}
      [] ty = "ModImport" -> {"ModImport", "ImportSpecifier", "NormalImportSpec"}
      [] ty = "ModDecl" ->
           {"ModDecl", "Decl", "VarDecl", "ModImport", "ImportSpecifier",
            "NormalImportSpec", "ModExport", "NamedExportDecl",
            "DefaultExportDecl", "ExportSpecifier"}
      [] OTHER ->
           {"Decl", "VarDecl", "ModImport", "ImportSpecifier",
            "NormalImportSpec", "ModExport", "NamedExportDecl",
            "DefaultExportDecl", "ExportSpecifier"}

\* some build derives the trait for the type and for all it can hold
Derived(ty, trait) ==
    \E f \in SUBSET Features : \A t \in Holds(ty) : Derives(f, t, trait)

SerOpt(o) == IF o = None THEN JNull ELSE JStr(o[1])

\* an enum variant written with a `type` discriminant beside its payload
Variant_Adjacent(tag, payload) ==
    JObj(<< <<"type", JStr(tag)>>, <<"value", payload>> >>)

\* an enum variant, externally tagged (serde's default for a derived enum)
Variant(tag, payload) == JObj(<< <<tag, payload>> >>)

RECURSIVE Ser(_, _)

SerVec(h, ks) == JArr([i \in 1..Len(ks) |-> Ser(h, ks[i])])

Ser(h, id) ==
    LET n == h[id] IN
    CASE n.ty = "Decl" /\ n.tag = "Var" ->
           Variant("Var", JArr(<<JStr(n.kind), SerVec(h, n.decls)>>))
      [] n.ty = "Decl" /\ n.tag = "Func" -> Variant("Func", JStr(n.func))
      [] n.ty = "Decl" /\ n.tag = "Class" -> Variant("Class", JStr(n.class))
      [] n.ty = "Decl" /\ n.tag = "Import" -> Variant("Import", Ser(h, n.boxed))
      [] n.ty = "Decl" /\ n.tag = "Export" -> Variant("Export", Ser(h, n.boxed))
      [] n.ty = "VarDecl" ->
           JObj(<< <<"id", JStr(n.id)>>, <<"init", SerOpt(n.init)>> >>)
      [] n.ty = "ModDecl" -> Variant(n.tag, Ser(h, n.inner))
      [] n.ty = "ModImport" ->
           JObj(<< <<"specifiers", SerVec(h, n.specifiers)>>,
                   <<"source", JStr(n.source)>> >>)
      [] n.ty = "ImportSpecifier" /\ n.tag = "Normal" ->
           Variant("Normal", Ser(h, n.spec))
      [] n.ty = "ImportSpecifier" /\ n.tag = "Default" ->
           Variant("Default", JStr(n.ident))
      [] n.ty = "ImportSpecifier" /\ n.tag = "Namespace" ->
           Variant("Namespace", JStr(n.ident))
      [] n.ty = "NormalImportSpec" ->
           JObj(<< <<"local", JStr(n.local)>>, <<"imported", JStr(n.imported)>> >>)
      [] n.ty = "ModExport" /\ n.tag = "Default" ->
           Variant("Default", Ser(h, n.payload))
      [] n.ty = "ModExport" /\ n.tag = "Named" ->
           Variant("Named", Ser(h, n.payload))
      [] n.ty = "ModExport" /\ n.tag = "All" -> Variant("All", JStr(n.source))
      [] n.ty = "NamedExportDecl" /\ n.tag = "Decl" ->
           Variant("Decl", Ser(h, n.decl))
      [] n.ty = "NamedExportDecl" /\ n.tag = "Specifier" ->
           Variant("Specifier", JArr(<<SerVec(h, n.specs), SerOpt(n.source)>>))
      [] n.ty = "DefaultExportDecl" /\ n.tag = "Decl" ->
           Variant("Decl", Ser(h, n.decl))
      [] n.ty = "DefaultExportDecl" /\ n.tag = "Expr" ->
           Variant("Expr", JStr(n.expr))
      [] n.ty = "ExportSpecifier" ->
           JObj(<< <<"local", JStr(n.local)>>, <<"exported", JStr(n.exported)>> >>)

(* Deserialization is driven by the type asked for.  The result is the     *)
(* heap with the nodes read added (the node asked for last), or a failure. *)

Fail(h) == [ok |-> FALSE, heap |-> h]
Done(h, n) == [ok |-> TRUE, heap |-> Append(h, n)]

IsObj(j) == j.j = "obj"
IsStr(j) == j.j = "str"
IsArr(j, len) == j.j = "arr" /\ Len(j.v) = len
HasField(j, k) == \E i \in 1..Len(j.v) : j.v[i][1] = k
Field(j, k) == j.v[CHOOSE i \in 1..Len(j.v) : j.v[i][1] = k][2]
\* an enum is an object with one key, the variant's name
IsVariant(j) == IsObj(j) /\ Len(j.v) = 1
VariantOf(j) == j.v[1][1]
Payload(j) == j.v[1][2]

DeOpt(j) == IF j.j = "null" THEN None ELSE Some(j.v)

RECURSIVE De(_, _, _)
RECURSIVE DeVec(_, _, _)

\* the elements of an array read in turn; ids are where they were put
DeVec(h, ty, items) ==
    IF items = <<>> THEN [ok |-> TRUE, heap |-> h, ids |-> <<>>]
    ELSE LET r == DeVec(h, ty, Front(items)) IN
         IF ~r.ok THEN r
         ELSE LET e == De(r.heap, ty, Last(items)) IN
              [ok |-> e.ok, heap |-> e.heap, ids |-> Append(r.ids, Len(e.heap))]

\* a variant whose payload is one node of type inner
DeNewtype(h, inner, j, n) ==
    LET r == De(h, inner, Payload(j)) IN
    IF r.ok THEN Done(r.heap, WithKids(n, <<Len(r.heap)>>)) ELSE Fail(h)

De(h, ty, j) ==
    CASE ty = "VarDecl" ->
           IF IsObj(j) /\ HasField(j, "id") /\ IsStr(Field(j, "id"))
           THEN Done(h, [ty |-> "VarDecl", tag |-> "VarDecl",
                         id |-> Field(j, "id").v,
                         init |-> IF HasField(j, "init")
                                  THEN DeOpt(Field(j, "init")) ELSE None])
           ELSE Fail(h)
      [] ty = "NormalImportSpec" ->
           IF IsObj(j) /\ HasField(j, "local") /\ HasField(j, "imported")
           THEN Done(h, [ty |-> "NormalImportSpec", tag |-> "NormalImportSpec",
                         local |-> Field(j, "local").v,
                         imported |-> Field(j, "imported").v])
           ELSE Fail(h)
      [] ty = "ExportSpecifier" ->
           IF IsObj(j) /\ HasField(j, "local") /\ HasField(j, "exported")
           THEN Done(h, [ty |-> "ExportSpecifier", tag |-> "ExportSpecifier",
                         local |-> Field(j, "local").v,
                         exported |-> Field(j, "exported").v])
           ELSE Fail(h)
      [] ty = "ModImport" ->
           IF IsObj(j) /\ HasField(j, "specifiers") /\ HasField(j, "source")
              /\ Field(j, "specifiers").j = "arr"
           THEN LET r == DeVec(h, "ImportSpecifier", Field(j, "specifiers").v) IN
                IF r.ok
                THEN Done(r.heap, [ty |-> "ModImport", tag |-> "ModImport",
                                   specifiers |-> r.ids,
                                   source |-> Field(j, "source").v])
                ELSE Fail(h)
           ELSE Fail(h)
      [] ty = "ImportSpecifier" ->
           IF ~IsVariant(j) THEN Fail(h)
           ELSE CASE VariantOf(j) = "Normal" ->
                       DeNewtype(h, "NormalImportSpec", j,
                                 [ty |-> ty, tag |-> "Normal", spec |-> 0])
                  [] VariantOf(j) \in {"Default", "Namespace"} ->
                       Done(h, [ty |-> ty, tag |-> VariantOf(j),
                                ident |-> Payload(j).v])
                  [] OTHER -> Fail(h)
      [] ty = "ModDecl" ->
           IF ~IsVariant(j) THEN Fail(h)
           ELSE CASE VariantOf(j) = "Import" ->
                       DeNewtype(h, "ModImport", j,
                                 [ty |-> ty, tag |-> "Import", inner |-> 0])
                  [] VariantOf(j) = "Export" ->
                       DeNewtype(h, "ModExport", j,
                                 [ty |-> ty, tag |-> "Export", inner |-> 0])
                  [] OTHER -> Fail(h)
      [] ty = "ModExport" ->
           IF ~IsVariant(j) THEN Fail(h)
           ELSE CASE VariantOf(j) = "Default" ->
                       DeNewtype(h, "DefaultExportDecl", j,
                                 [ty |-> ty, tag |-> "Default", payload |-> 0])
                  [] VariantOf(j) = "Named" ->
                       DeNewtype(h, "NamedExportDecl", j,
                                 [ty |-> ty, tag |-> "Named", payload |-> 0])
                  [] VariantOf(j) = "All" /\ IsStr(Payload(j)) ->
                       Done(h, [ty |-> ty, tag |-> "All", source |-> Payload(j).v])
                  [] OTHER -> Fail(h)
      [] ty = "NamedExportDecl" ->
           IF ~IsVariant(j) THEN Fail(h)
           ELSE CASE VariantOf(j) = "Decl" ->
                       DeNewtype(h, "Decl", j, [ty |-> ty, tag |-> "Decl", decl |-> 0])
                  [] VariantOf(j) = "Specifier" /\ IsArr(Payload(j), 2) ->
                       IF Payload(j).v[1].j # "arr" THEN Fail(h)
                       ELSE LET r == DeVec(h, "ExportSpecifier", Payload(j).v[1].v) IN
                            IF r.ok
                            THEN Done(r.heap, [ty |-> ty, tag |-> "Specifier",
                                               specs |-> r.ids,
                                               source |-> DeOpt(Payload(j).v[2])])
                            ELSE Fail(h)
                  [] OTHER -> Fail(h)
      [] ty = "DefaultExportDecl" ->
           IF ~IsVariant(j) THEN Fail(h)
           ELSE CASE VariantOf(j) = "Decl" ->
                       DeNewtype(h, "Decl", j, [ty |-> ty, tag |-> "Decl", decl |-> 0])
                  [] VariantOf(j) = "Expr" /\ IsStr(Payload(j)) ->
                       Done(h, [ty |-> ty, tag |-> "Expr", expr |-> Payload(j).v])
                  [] OTHER -> Fail(h)
      [] ty = "Decl" ->
           IF ~IsVariant(j) THEN Fail(h)
           ELSE CASE VariantOf(j) = "Var" /\ IsArr(Payload(j), 2) ->
                       IF Payload(j).v[2].j # "arr" \/ ~IsStr(Payload(j).v[1])
                       THEN Fail(h)
                       ELSE LET r == DeVec(h, "VarDecl", Payload(j).v[2].v) IN
                            IF r.ok
                            THEN Done(r.heap, [ty |-> ty, tag |-> "Var",
                                               kind |-> Payload(j).v[1].v,
                                               decls |-> r.ids])
                            ELSE Fail(h)
                  [] VariantOf(j) = "Func" /\ IsStr(Payload(j)) ->
                       Done(h, [ty |-> ty, tag |-> "Func", func |-> Payload(j).v])
                  [] VariantOf(j) = "Class" /\ IsStr(Payload(j)) ->
                       Done(h, [ty |-> ty, tag |-> "Class", class |-> Payload(j).v])
                  [] VariantOf(j) = "Import" ->
                       DeNewtype(h, "ModImport", j,
                                 [ty |-> ty, tag |-> "Import", boxed |-> 0])
                  [] VariantOf(j) = "Export" ->
                       DeNewtype(h, "ModExport", j,
                                 [ty |-> ty, tag |-> "Export", boxed |-> 0])
                  [] OTHER -> Fail(h)

\* serialize takes &x and writes the interchange value
SerializeNode(id) ==
    /\ Derived(heap[id].ty, "Serialize")
    /\ wire' = Some([ty |-> heap[id].ty, src |-> id, json |-> Ser(heap, id)])
    /\ out' = [op |-> "ser", src |-> id, dst |-> 0, args |-> <<>>]
    /\ UNCHANGED <<heap, roots>>

\* the value on the wire read back as the type it was written from
DeserializeWire ==
    /\ wire # None
    /\ Derived(wire[1].ty, "Deserialize")
    /\ LET r == De(heap, wire[1].ty, wire[1].json) IN
       IF r.ok
       THEN /\ heap' = r.heap
            /\ roots' = Append(roots, Len(r.heap))
            /\ out' = [op |-> "de", src |-> wire[1].src, dst |-> Len(r.heap),
                        args |-> <<>>]
       ELSE /\ out' = [op |-> "de_err", src |-> wire[1].src, dst |-> 0,
                        args |-> <<>>]
            /\ UNCHANGED <<heap, roots>>
    /\ wire' = None

(* ------------------------------ steps --------------------------------- *)

Init ==
    /\ heap = <<>>
    /\ roots = <<>>
    /\ wire = None
    /\ out = [op |-> "init", src |-> 0, dst |-> 0, args |-> <<>>]

\* the parser builds at most cap nodes; a copy is made of a tree it built
Building(cap) == Len(heap) < cap
Copying(cap) == Len(heap) <= cap

VarSteps ==
    \/ \E id \in Pat, init \in Option(Expr) : VarDecl(id, init)
    \/ \E kind \in VarKind, ds \in Vecs("VarDecl") : Decl_Var(kind, ds)

LeafDeclSteps ==
    \/ \E f \in Func : Decl_Func(f)
    \/ \E c \in Class : Decl_Class(c)

DeclImportStep == \E b \in RootsOf("ModImport") : Decl_Import(b)

DeclExportStep == \E b \in RootsOf("ModExport") : Decl_Export(b)

ModDeclSteps ==
    \/ \E m \in RootsOf("ModImport") : ModDecl_Import(m)
    \/ \E m \in RootsOf("ModExport") : ModDecl_Export(m)

NormalSteps ==
    \/ \E l, i \in Ident : NormalImportSpec(l, i)
    \/ \E s \in RootsOf("NormalImportSpec") : ImportSpecifier_Normal(s)

DefaultSteps ==
    \/ \E x \in Ident : ImportSpecifier_Default(x)
    \/ \E x \in Ident : ImportSpecifier_Namespace(x)

ModImportStep ==
    \E ss \in Vecs("ImportSpecifier"), src \in Lit : ModImport(ss, src)

SpecifierSteps ==
    \/ \E l, e \in Ident : ExportSpecifier(l, e)
    \/ \E ss \in Vecs("ExportSpecifier"), src \in Option(Lit) :
           NamedExportDecl_Specifier(ss, src)

ExportSteps ==
    \/ \E d \in RootsOf("Decl") : NamedExportDecl_Decl(d)
    \/ \E d \in RootsOf("Decl") : DefaultExportDecl_Decl(d)
    \/ \E e \in Expr : DefaultExportDecl_Expr(e)
    \/ \E p \in RootsOf("DefaultExportDecl") : ModExport_Default(p)
    \/ \E p \in RootsOf("NamedExportDecl") : ModExport_Named(p)
    \/ \E src \in Lit : ModExport_All(src)

CloneStep(cap) == Copying(cap) /\ \E id \in Ids : CloneNode(id)

\* every node type and every operation
Next ==
    \/ /\ Building(MaxNodes)
       /\ \/ VarSteps
          \/ LeafDeclSteps
          \/ DeclImportStep
          \/ DeclExportStep
          \/ ModDeclSteps
          \/ NormalSteps
          \/ DefaultSteps
          \/ ModImportStep
          \/ SpecifierSteps
          \/ ExportSteps
    \/ CloneStep(MaxNodes)
    \/ \E id \in Ids : SerializeNode(id)
    \/ Copying(MaxNodes) /\ DeserializeWire

Spec == Init /\ [][Next]_vars

\* the parser reading variable declarations
NextVar == Building(MaxFamily) /\ VarSteps

SpecVar == Init /\ [][NextVar]_vars

\* the parser reading import declarations without braces
NextImport == Building(MaxFamily) /\ (DefaultSteps \/ ModImportStep)

SpecImport == Init /\ [][NextImport]_vars

\* the same, long enough to read two imports of two specifiers each
NextOrder == Building(MaxImport) /\ (DefaultSteps \/ ModImportStep)

SpecOrder == Init /\ [][NextOrder]_vars

\* the parser reading the braces of import and export declarations
NextSpecifier ==
    Building(MaxBraces) /\ (NormalSteps \/ ModImportStep \/ SpecifierSteps)

SpecSpecifier == Init /\ [][NextSpecifier]_vars

\* the parser reading export declarations, and copies of what it built
NextExport ==
    \/ /\ Building(MaxFamily)
       /\ \/ LeafDeclSteps
          \/ DeclExportStep
          \/ SpecifierSteps
          \/ ExportSteps
    \/ CloneStep(MaxFamily)

SpecExport == Init /\ [][NextExport]_vars

\* the parser reading declarations of all five forms, and copies of them
NextDecl ==
    \/ /\ Building(MaxFamily)
       /\ \/ VarSteps
          \/ LeafDeclSteps
          \/ ModImportStep
          \/ DeclImportStep
          \/ DeclExportStep
          \/ ExportSteps
    \/ CloneStep(MaxFamily)

SpecDecl == Init /\ [][NextDecl]_vars

(* ------------------------------ reading ------------------------------- *)

Nodes(ty, tag) == {i \in Ids : heap[i].ty = ty /\ heap[i].tag = tag}

\* the variants of a ModImport's specifiers, in order
SpecifierTags(h, m) ==
    [i \in 1..Len(h[m].specifiers) |-> h[h[m].specifiers[i]].tag]

CountOf(seq, x) == Cardinality({i \in 1..Len(seq) : seq[i] = x})

\* the (local, imported) names of braced import specifiers, in order
ImportPairs(h, ss) ==
    [i \in 1..Len(ss) |-> <<h[h[ss[i]].spec].local, h[h[ss[i]].spec].imported>>]

\* the (local, exported) names of export specifiers, in order
ExportPairs(h, ss) ==
    [i \in 1..Len(ss) |-> <<h[ss[i]].local, h[ss[i]].exported>>]

\* every child link of the first n nodes: the child each link leads to
RECURSIVE Links(_, _)
Links(h, n) == IF n = 0 THEN <<>> ELSE Links(h, n - 1) \o Kids(h[n])

\* the nodes S and every node reached from them through child links
RECURSIVE Below(_, _)
Below(h, S) ==
    LET T == S \cup UNION {Range(Kids(h[p])) : p \in S}
    IN  IF T = S THEN S ELSE Below(h, T)

(* ------------------------------ claims -------------------------------- *)

\* the node the last step built, when that step was a construction of a
\* node of this variant
Built(ty, tag) ==
    out.op = "new" /\ heap[out.dst].ty = ty /\ heap[out.dst].tag = tag

C4_CloneEq ==
    out.op = "clone" =>
        /\ Eq(heap, out.dst, out.src) /\ Eq(heap, out.src, out.dst)
        /\ SameTree(heap, out.src, out.dst)
        /\ Tree(heap, out.src) = out.args[1]

C4_Witness ==
    /\ out.op = "clone"
    /\ heap[out.src].ty = "Decl" /\ heap[out.src].tag = "Export"
    /\ heap[heap[out.src].boxed].tag = "Named"
    /\ heap[heap[heap[out.src].boxed].payload].tag = "Decl"
    /\ heap[out.dst].boxed # heap[out.src].boxed

C6_OrderKept ==
    /\ Built("ModImport", "ModImport") =>
          /\ Len(heap[out.dst].specifiers) = Len(out.args[1])
          /\ \A i \in 1..Len(out.args[1]) :
                heap[out.dst].specifiers[i] = out.args[1][i]
    /\ \A m1, m2 \in Nodes("ModImport", "ModImport") :
          Eq(heap, m1, m2) <=>
              /\ heap[m1].source = heap[m2].source
              /\ Len(heap[m1].specifiers) = Len(heap[m2].specifiers)
              /\ \A i \in 1..Len(heap[m1].specifiers) :
                    SameTree(heap, heap[m1].specifiers[i], heap[m2].specifiers[i])

C6_Witness ==
    \E m1, m2 \in Nodes("ModImport", "ModImport") :
        /\ heap[m1].source = heap[m2].source
        /\ SpecifierTags(heap, m1) = <<"Default", "Namespace">>
        /\ SpecifierTags(heap, m2) = <<"Namespace", "Default">>
        /\ SameTree(heap, heap[m1].specifiers[1], heap[m2].specifiers[2])
        /\ SameTree(heap, heap[m1].specifiers[2], heap[m2].specifiers[1])
        /\ ~Eq(heap, m1, m2)

\* C7: NamedExportDecl::Specifier can be built with either source, None or
\* Some, and keeps the one it was given; two Specifier nodes with different
\* sources are not equal; NamedExportDecl::Decl has no source field and
\* equals no Specifier.
C7_SourceAsymmetry ==
    /\ \A ss \in Vecs("ExportSpecifier"), src \in Option(Lit) :
          ENABLED NamedExportDecl_Specifier(ss, src)
    /\ Built("NamedExportDecl", "Specifier") => heap[out.dst].source = out.args[2]
    /\ \A x \in Nodes("NamedExportDecl", "Decl") :
          /\ DOMAIN heap[x] = {"ty", "tag", "decl"}
          /\ \A y \in Nodes("NamedExportDecl", "Specifier") :
                ~Eq(heap, x, y) /\ ~Eq(heap, y, x)
    /\ \A x, y \in Nodes("NamedExportDecl", "Specifier") :
          /\ heap[x].source \in Option(Lit)
          /\ heap[x].source # heap[y].source => ~Eq(heap, x, y)

C7_Witness ==
    \E x, y \in Nodes("NamedExportDecl", "Specifier") :
        /\ heap[x].source = None
        /\ heap[y].source = Some("mod")
        /\ Len(heap[x].specs) = Len(heap[y].specs)
        /\ \A i \in 1..Len(heap[x].specs) :
              SameTree(heap, heap[x].specs[i], heap[y].specs[i])
        /\ ~Eq(heap, x, y)
        /\ Nodes("NamedExportDecl", "Decl") # {}

\* C8: a braced import or export specifier can be built from any two names,
\* equal or not, and holds each in its own field; a ModImport or a
\* NamedExportDecl::Specifier holds its specifiers' names in declared order.
C8_NamesKept ==
    /\ \A l, i \in Ident : ENABLED NormalImportSpec(l, i)
    /\ \A l, e \in Ident : ENABLED ExportSpecifier(l, e)
    /\ Built("NormalImportSpec", "NormalImportSpec") =>
          heap[out.dst].local = out.args[1] /\ heap[out.dst].imported = out.args[2]
    /\ Built("ExportSpecifier", "ExportSpecifier") =>
          heap[out.dst].local = out.args[1] /\ heap[out.dst].exported = out.args[2]
    /\ Built("ModImport", "ModImport") =>
          /\ ImportPairs(heap, heap[out.dst].specifiers)
                = ImportPairs(heap, out.args[1])
          /\ heap[out.dst].source = out.args[2]
    /\ Built("NamedExportDecl", "Specifier") =>
          /\ ExportPairs(heap, heap[out.dst].specs) = ExportPairs(heap, out.args[1])
          /\ heap[out.dst].source = out.args[2]

C8_Witness ==
    /\ \E m \in Nodes("ModImport", "ModImport") :
          /\ ImportPairs(heap, heap[m].specifiers) = << <<"b", "a">>, <<"a", "a">> >>
          /\ heap[m].source = "mod"

C10_Tree ==
    LET L == Links(heap, Len(heap)) IN
    /\ \A i, j \in 1..Len(L) : L[i] = L[j] => i = j
    /\ \A c \in Ids :
          /\ CountOf(roots, c) = (IF \E i \in 1..Len(L) : L[i] = c THEN 0 ELSE 1)
          /\ c \notin Below(heap, Range(Kids(heap[c])))

C10_Witness ==
    \E d \in Nodes("Decl", "Export") :
        /\ heap[heap[d].boxed].tag = "Named"
        /\ heap[heap[heap[d].boxed].payload].tag = "Decl"
        /\ heap[heap[heap[heap[d].boxed].payload].decl].ty = "Decl"

====
